---- MODULE Spec2Model ----
(***************************************************************************)
(* State machine of the Chat component (src/src/components/Chat.jsx).      *)
(*                                                                         *)
(* The React state (sessionId, messages, input, isLoading, historyList),   *)
(* the two localStorage keys and the backend requests in flight are the    *)
(* variables.  Every event handler is one action; every `await fetch(...)` *)
(* is a suspension point: the handler's first half issues a request that   *)
(* remembers the values its closure captured (the state of the render the  *)
(* handler was created in), and the continuation is a separate action that *)
(* runs when the backend resolves or rejects the request.                  *)
(***************************************************************************)
EXTENDS Integers, Sequences, FiniteSets, Bags, TLC

VARIABLES
    sessionId,      \* useState(null), line 7
    messages,       \* useState([]), line 8
    input,          \* useState(''), line 9
    isLoading,      \* useState(false), line 10
    historyList,    \* useState([]), line 11
    ls_session,     \* localStorage['chat_session_id']
    ls_history,     \* localStorage['chat_history_list']
    inflight,       \* the bag of backend requests awaiting their response
    nextId,         \* the backend's next fresh session id
    mounted,        \* whether the mount effect (lines 14-34) has run
    issued,         \* how many requests the mount effect and the handlers started
    event           \* the continuation or refusal that the last step was, if any

vars == <<sessionId, messages, input, isLoading, historyList, ls_session,
          ls_history, inflight, nextId, mounted, issued, event>>

----------------------------------------------------------------------------
\* Bounds of the model.

\* Backend requests that the mount effect and the handlers start in one run
\* (across page reloads).  It bounds the sessions the backend creates, the
\* requests outstanding together and the length of the transcript.
MaxRequests == 5

----------------------------------------------------------------------------
\* Values.

\* null: the initial sessionId and an absent localStorage item.
Null == 0

Ids == 1..MaxRequests

\* What the user can type: nothing, white space only, text with a leading blank.
Inputs == {"", " ", " hi"}

\* String.prototype.trim on the inputs above.
jsTrim(s) ==
    CASE s = ""    -> ""
      [] s = " "   -> ""
      [] s = " hi" -> "hi"
      [] OTHER     -> s

\* The greeting literal of lines 52, 72 and 128.
GreetingMessage ==
    [role |-> "assistant",
     content |-> "Hello! I am your news assistant. Ask me anything about the latest news."]

\* The apology literal of line 160.
ApologyMessage ==
    [role |-> "assistant", content |-> "Sorry, something went wrong. Please try again."]

\* { role: 'user', content: input }, line 139.
UserMessage(text) == [role |-> "user", content |-> text]

\* { role: 'assistant', content: data.answer, sources: data.sources }, lines 152-156.
BotMessage(answer, sources) ==
    [role |-> "assistant", content |-> answer, sources |-> sources]

\* What POST /chat can answer.
Answers == {"answer"}
SourceLists == {<<[source |-> "bbc", link |-> "http://bbc"]>>}

\* What GET /history/{id} can answer: no prior turns, or the session's turns.
HistoryOf(id) ==
    <<[role |-> "user", content |-> "q" \o ToString(id)],
      [role |-> "assistant", content |-> "a" \o ToString(id), sources |-> <<>>]>>
Histories(id) == {<<>>, HistoryOf(id)}

\* new Date().toLocaleString(), line 55.
Dates == {"date"}

\* { id: newSessionId, date: ... }, line 55.
HistoryItem(id, date) == [id |-> id, date |-> date]

\* localStorage.getItem of a key that was never set.
Absent == [absent |-> TRUE]

\* JSON.stringify of a history list (lines 58, 106): the text is modelled as
\* the sequence of the items' field values.
JSONstringify(list) ==
    [json |-> [i \in 1..Len(list) |-> <<list[i].id, list[i].date>>]]

\* JSON.parse(localStorage.getItem('chat_history_list') || '[]'), line 16.
JSONparse(text) ==
    IF text = Absent THEN <<>>
    ELSE [i \in 1..Len(text.json) |->
             [id |-> text.json[i][1], date |-> text.json[i][2]]]

\* The ids of a history list.
IdsOf(list) == {list[i].id : i \in 1..Len(list)}

\* historyList.filter(item => item.id !== id), line 104.
RECURSIVE FilterOut(_, _)
FilterOut(list, id) ==
    IF list = <<>> THEN <<>>
    ELSE IF Head(list).id # id
         THEN <<Head(list)>> \o FilterOut(Tail(list), id)
         ELSE FilterOut(Tail(list), id)


----------------------------------------------------------------------------
\* Requests in flight.  kind is the fetch that is awaited; id is the session
\* in the URL or body; sid, list and msg are the closure's sessionId,
\* historyList and input; pre is the transcript when the handler was invoked.

Request(kind, id, sid, list, msg, pre) ==
    [kind |-> kind, id |-> id, sid |-> sid, list |-> list, msg |-> msg, pre |-> pre]

\* What event records: a continuation that ran (out is "resolved" or
\* "rejected") or a handler that refused to act (out is "refused"); NoEvent
\* after every other step.  A resolved fetchHistory also records the session
\* asked for and the history the backend returned.
Event(op, out) == [op |-> op, out |-> out]
NoEvent == Event("none", "none")

\* The bag with one more request r: a fetch was started.
Issue(bag, r) == bag (+) SetToBag({r})

\* The bag without one copy of r: the awaited fetch settled.
Settle(bag, r) == bag (-) SetToBag({r})

\* The requests of the given kinds that are outstanding, and their number.
OfKinds(kinds) == {r \in BagToSet(inflight) : r.kind \in kinds}
Outstanding(kinds) == BagCardinality([r \in OfKinds(kinds) |-> inflight[r]])

CanIssue == issued < MaxRequests

----------------------------------------------------------------------------
Init ==
    /\ sessionId = Null
    /\ messages = <<>>
    /\ input = ""
    /\ isLoading = FALSE
    /\ historyList = <<>>
    /\ ls_session = Null
    /\ ls_history = Absent
    /\ inflight = EmptyBag
    /\ nextId = 1
    /\ mounted = FALSE
    /\ issued = 0
    /\ event = NoEvent

\* createSession up to its await, line 46: POST /session is issued.  list is
\* the historyList of the render whose closure is running.
createSessionCall(list) == Request("create", Null, Null, list, "", <<>>)

\* fetchHistory up to its await, line 67: GET /history/{id} is issued.
fetchHistoryCall(id) == Request("history", id, Null, <<>>, "", <<>>)

\* The mount effect, lines 14-34.  It runs in the closure of the first render,
\* so the createSession it calls sees historyList = [].
Mount ==
    /\ ~mounted
    /\ mounted' = TRUE
    /\ historyList' = JSONparse(ls_history)
    /\ IF ls_session # Null
       THEN /\ sessionId' = ls_session
            /\ issued' = issued + 1
            /\ inflight' = Issue(inflight, fetchHistoryCall(ls_session))
            /\ event' = NoEvent
       ELSE /\ sessionId' = sessionId
            /\ issued' = issued + 1
            /\ inflight' = Issue(inflight, createSessionCall(<<>>))
            /\ event' = NoEvent
    /\ UNCHANGED <<messages, input, isLoading, ls_session, ls_history, nextId>>

\* handleNewChat, lines 79-81: createSession() in the current render's closure.
handleNewChat ==
    /\ mounted
    /\ CanIssue
    /\ issued' = issued + 1
    /\ inflight' = Issue(inflight, createSessionCall(historyList))
    /\ event' = NoEvent
    /\ UNCHANGED <<sessionId, messages, input, isLoading, historyList,
                   ls_session, ls_history, nextId, mounted>>

\* Faulty variant of prependItem: the new item is left out of updatedList.
prependItemDropsNew(item, list) == list

\* [newHistoryItem, ...historyList], line 56.
prependItem(item, list) == <<item>> \o list

\* createSession after its awaits, lines 47-58: the backend answered with a
\* fresh id.  updatedList is built from the closure's historyList.
createSessionResolve(r) ==
    /\ r.kind = "create"
    /\ \E date \in Dates :
         LET newSessionId == nextId
             updatedList == prependItem(HistoryItem(newSessionId, date), r.list)
         IN /\ sessionId' = newSessionId
            /\ ls_session' = newSessionId
            /\ messages' = <<GreetingMessage>>
            /\ historyList' = updatedList
            /\ ls_history' = JSONstringify(updatedList)
            /\ nextId' = nextId + 1
            /\ event' = Event("createSession", "resolved")
    /\ inflight' = Settle(inflight, r)
    /\ UNCHANGED <<input, isLoading, mounted, issued>>

\* createSession's catch, lines 60-62: the fetch (or res.json()) rejected.
createSessionReject(r) ==
    /\ r.kind = "create"
    /\ inflight' = Settle(inflight, r)
    /\ event' = Event("createSession", "rejected")
    /\ UNCHANGED <<sessionId, messages, input, isLoading, historyList,
                   ls_session, ls_history, nextId, mounted, issued>>

\* Faulty variant of historyOrGreeting: an empty history is shown as it is.
historyOrGreetingKeepsEmpty(history) == history

\* if (data.history && data.history.length > 0) ... else ..., lines 69-73.
historyOrGreeting(history) ==
    IF Len(history) > 0 THEN history ELSE <<GreetingMessage>>

\* fetchHistory after its awaits, lines 68-73.
fetchHistoryResolve(r) ==
    /\ r.kind = "history"
    /\ \E history \in Histories(r.id) :
         /\ messages' = historyOrGreeting(history)
         /\ event' = [op |-> "fetchHistory", out |-> "resolved",
                      id |-> r.id, history |-> history]
    /\ inflight' = Settle(inflight, r)
    /\ UNCHANGED <<sessionId, input, isLoading, historyList, ls_session,
                   ls_history, nextId, mounted, issued>>

\* Faulty variant of fetchHistoryReject: the transcript is cleared when the
\* history cannot be fetched.
fetchHistoryRejectClearsTranscript(r) ==
    /\ r.kind = "history"
    /\ messages' = <<>>
    /\ inflight' = Settle(inflight, r)
    /\ event' = Event("fetchHistory", "rejected")
    /\ UNCHANGED <<sessionId, input, isLoading, historyList, ls_session,
                   ls_history, nextId, mounted, issued>>

\* fetchHistory's catch, lines 74-76.
fetchHistoryReject(r) ==
    /\ r.kind = "history"
    /\ inflight' = Settle(inflight, r)
    /\ event' = Event("fetchHistory", "rejected")
    /\ UNCHANGED <<sessionId, messages, input, isLoading, historyList,
                   ls_session, ls_history, nextId, mounted, issued>>

\* Faulty variant of handleLoadSession: the selected id is not persisted.
handleLoadSessionNoPersist(id) ==
    /\ mounted
    /\ id \in IdsOf(historyList)
    /\ IF id = sessionId
       THEN /\ event' = NoEvent
            /\ UNCHANGED <<sessionId, inflight, issued>>
       ELSE /\ CanIssue
            /\ sessionId' = id
            /\ issued' = issued + 1
            /\ inflight' = Issue(inflight, fetchHistoryCall(id))
            /\ event' = NoEvent
    /\ UNCHANGED <<messages, input, isLoading, historyList, ls_session,
                   ls_history, nextId, mounted>>

\* handleLoadSession, lines 83-88, for a click on an entry of the sidebar.
handleLoadSession(id) ==
    /\ mounted
    /\ id \in IdsOf(historyList)
    /\ IF id = sessionId
       THEN /\ event' = NoEvent
            /\ UNCHANGED <<sessionId, ls_session, inflight, issued>>
       ELSE /\ CanIssue
            /\ sessionId' = id
            /\ ls_session' = id
            /\ issued' = issued + 1
            /\ inflight' = Issue(inflight, fetchHistoryCall(id))
            /\ event' = NoEvent
    /\ UNCHANGED <<messages, input, isLoading, historyList, ls_history,
                   nextId, mounted>>

\* Faulty variant of deleteRefused: the comparison is `< 1`.
deleteRefusedOnlyWhenEmpty(list) == Len(list) < 1

\* if (historyList.length <= 1), line 93.
deleteRefused(list) == Len(list) <= 1

\* handleDeleteSession up to its await, lines 90-101.  confirmed is the answer
\* to window.confirm.
handleDeleteSession(id, confirmed) ==
    /\ mounted
    /\ id \in IdsOf(historyList)
    /\ IF deleteRefused(historyList)
       THEN /\ event' = Event("handleDeleteSession", "refused")
            /\ UNCHANGED <<inflight, issued>>
       ELSE IF ~confirmed
       THEN /\ event' = NoEvent
            /\ UNCHANGED <<inflight, issued>>
       ELSE /\ CanIssue
            /\ issued' = issued + 1
            /\ inflight' = Issue(inflight,
                                  Request("delete", id, sessionId, historyList, "", <<>>))
            /\ event' = NoEvent
    /\ UNCHANGED <<sessionId, messages, input, isLoading, historyList,
                   ls_session, ls_history, nextId, mounted>>

\* handleDeleteSession after its await, lines 103-112.  The list that is
\* filtered and the sessionId that is compared are the closure's; so is the
\* sessionId that the handleLoadSession of line 111 compares (line 84).
deleteSessionResolve(r) ==
    LET updatedList == FilterOut(r.list, r.id)
        rest == Settle(inflight, r)
    IN /\ r.kind = "delete"
       /\ historyList' = updatedList
       /\ ls_history' = JSONstringify(updatedList)
       /\ IF r.id = r.sid /\ updatedList # <<>> /\ updatedList[1].id # r.sid
          THEN /\ sessionId' = updatedList[1].id
               /\ ls_session' = updatedList[1].id
               /\ inflight' = Issue(rest, fetchHistoryCall(updatedList[1].id))
          ELSE \* another session was deleted; or updatedList[0] is undefined
               \* and the TypeError of line 111 is caught at line 113
               /\ inflight' = rest
               /\ UNCHANGED <<sessionId, ls_session>>
       /\ event' = Event("handleDeleteSession", "resolved")
       /\ UNCHANGED <<messages, input, isLoading, nextId, mounted, issued>>

\* Faulty variant of deleteSessionReject: the local removal of lines 104-106 runs in
\* the catch block too.
deleteSessionRejectRemovesLocally(r) ==
    /\ r.kind = "delete"
    /\ historyList' = FilterOut(r.list, r.id)
    /\ ls_history' = JSONstringify(FilterOut(r.list, r.id))
    /\ inflight' = Settle(inflight, r)
    /\ event' = Event("handleDeleteSession", "rejected")
    /\ UNCHANGED <<sessionId, messages, input, isLoading, ls_session, nextId,
                   mounted, issued>>

\* handleDeleteSession's catch, lines 113-115: the DELETE rejected.
deleteSessionReject(r) ==
    /\ r.kind = "delete"
    /\ inflight' = Settle(inflight, r)
    /\ event' = Event("handleDeleteSession", "rejected")
    /\ UNCHANGED <<sessionId, messages, input, isLoading, historyList,
                   ls_session, ls_history, nextId, mounted, issued>>

\* handleResetChat up to its await, lines 119-125.
handleResetChat(confirmed) ==
    /\ mounted
    /\ IF sessionId = Null
       THEN /\ event' = Event("handleResetChat", "refused")
            /\ UNCHANGED <<inflight, issued>>
       ELSE IF ~confirmed
       THEN /\ event' = NoEvent
            /\ UNCHANGED <<inflight, issued>>
       ELSE /\ CanIssue
            /\ issued' = issued + 1
            /\ inflight' = Issue(inflight,
                                  Request("reset", sessionId, sessionId, <<>>, "", <<>>))
            /\ event' = NoEvent
    /\ UNCHANGED <<sessionId, messages, input, isLoading, historyList,
                   ls_session, ls_history, nextId, mounted>>

\* handleResetChat after its await, lines 127-128.
resetChatResolve(r) ==
    /\ r.kind = "reset"
    /\ messages' = <<GreetingMessage>>
    /\ inflight' = Settle(inflight, r)
    /\ event' = Event("handleResetChat", "resolved")
    /\ UNCHANGED <<sessionId, input, isLoading, historyList, ls_session,
                   ls_history, nextId, mounted, issued>>

\* Faulty variant of resetChatReject: the transcript is reset in the catch
\* block too.
resetChatRejectResetsLocally(r) ==
    /\ r.kind = "reset"
    /\ messages' = <<GreetingMessage>>
    /\ inflight' = Settle(inflight, r)
    /\ event' = Event("handleResetChat", "rejected")
    /\ UNCHANGED <<sessionId, input, isLoading, historyList, ls_session,
                   ls_history, nextId, mounted, issued>>

\* handleResetChat's catch, lines 129-131.
resetChatReject(r) ==
    /\ r.kind = "reset"
    /\ inflight' = Settle(inflight, r)
    /\ event' = Event("handleResetChat", "rejected")
    /\ UNCHANGED <<sessionId, messages, input, isLoading, historyList,
                   ls_session, ls_history, nextId, mounted, issued>>

\* onChange={(e) => setInput(e.target.value)}, line 236.
setInput(value) ==
    /\ mounted
    /\ value # input
    /\ input' = value
    /\ event' = NoEvent
    /\ UNCHANGED <<sessionId, messages, isLoading, historyList, ls_session,
                   ls_history, inflight, nextId, mounted, issued>>

\* Faulty variant of sendRefused: isLoading is not looked at.
sendRefusedIgnoresLoading(text, loading) == jsTrim(text) = ""

\* if (!input.trim() || isLoading) return, line 137.
sendRefused(text, loading) == jsTrim(text) = "" \/ loading

\* sendMessage up to its await, lines 135-149.
sendMessage ==
    /\ mounted
    /\ IF sendRefused(input, isLoading)
       THEN /\ event' = Event("sendMessage", "refused")
            /\ UNCHANGED <<messages, input, isLoading, inflight, issued>>
       ELSE /\ CanIssue
            /\ messages' = Append(messages, UserMessage(input))
            /\ input' = ""
            /\ isLoading' = TRUE
            /\ issued' = issued + 1
            /\ inflight' = Issue(inflight,
                                  Request("chat", sessionId, sessionId, <<>>, input, messages))
            /\ event' = NoEvent
    /\ UNCHANGED <<sessionId, historyList, ls_session, ls_history, nextId, mounted>>

\* sendMessage after its awaits, lines 150-157 and 161-163.
sendMessageResolve(r) ==
    /\ r.kind = "chat"
    /\ \E answer \in Answers, sources \in SourceLists :
         messages' = Append(messages, BotMessage(answer, sources))
    /\ isLoading' = FALSE
    /\ inflight' = Settle(inflight, r)
    /\ event' = Event("sendMessage", "resolved")
    /\ UNCHANGED <<sessionId, input, historyList, ls_session, ls_history,
                   nextId, mounted, issued>>

\* Faulty variant of sendMessageReject: the catch block takes the user's message back
\* before it appends the apology.
sendMessageRejectRollsBack(r) ==
    /\ r.kind = "chat"
    /\ messages' = Append(SubSeq(messages, 1, Len(messages) - 1), ApologyMessage)
    /\ isLoading' = FALSE
    /\ inflight' = Settle(inflight, r)
    /\ event' = Event("sendMessage", "rejected")
    /\ UNCHANGED <<sessionId, input, historyList, ls_session, ls_history,
                   nextId, mounted, issued>>

\* Faulty variant of sendMessageReject: there is no finally block, so isLoading stays.
sendMessageRejectKeepsLoading(r) ==
    /\ r.kind = "chat"
    /\ messages' = Append(messages, ApologyMessage)
    /\ inflight' = Settle(inflight, r)
    /\ event' = Event("sendMessage", "rejected")
    /\ UNCHANGED <<sessionId, input, isLoading, historyList, ls_session,
                   ls_history, nextId, mounted, issued>>

\* sendMessage's catch and finally, lines 158-163.
sendMessageReject(r) ==
    /\ r.kind = "chat"
    /\ messages' = Append(messages, ApologyMessage)
    /\ isLoading' = FALSE
    /\ inflight' = Settle(inflight, r)
    /\ event' = Event("sendMessage", "rejected")
    /\ UNCHANGED <<sessionId, input, historyList, ls_session, ls_history,
                   nextId, mounted, issued>>

\* The page is reloaded: the component is constructed anew (lines 7-11), the
\* continuations of the old page never run, localStorage and the backend stay.
\* The mount effect that follows starts a request, so one must be left.
Reload ==
    /\ mounted
    /\ CanIssue
    /\ sessionId' = Null
    /\ messages' = <<>>
    /\ input' = ""
    /\ isLoading' = FALSE
    /\ historyList' = <<>>
    /\ inflight' = EmptyBag
    /\ mounted' = FALSE
    /\ event' = NoEvent
    /\ UNCHANGED <<ls_session, ls_history, nextId, issued>>

Next ==
    \/ Mount
    \/ handleNewChat
    \/ \E id \in Ids : handleLoadSession(id)
    \/ \E id \in Ids, confirmed \in BOOLEAN : handleDeleteSession(id, confirmed)
    \/ \E confirmed \in BOOLEAN : handleResetChat(confirmed)
    \/ \E value \in Inputs : setInput(value)
    \/ sendMessage
    \/ \E r \in BagToSet(inflight) : createSessionResolve(r)
    \/ \E r \in BagToSet(inflight) : createSessionReject(r)
    \/ \E r \in BagToSet(inflight) : fetchHistoryResolve(r)
    \/ \E r \in BagToSet(inflight) : fetchHistoryReject(r)
    \/ \E r \in BagToSet(inflight) : deleteSessionResolve(r)
    \/ \E r \in BagToSet(inflight) : deleteSessionReject(r)
    \/ \E r \in BagToSet(inflight) : resetChatResolve(r)
    \/ \E r \in BagToSet(inflight) : resetChatReject(r)
    \/ \E r \in BagToSet(inflight) : sendMessageResolve(r)
    \/ \E r \in BagToSet(inflight) : sendMessageReject(r)
    \/ Reload

Spec == Init /\ [][Next]_vars

----------------------------------------------------------------------------
\* Vocabulary of the properties.

\* The kinds of request started by createSession, handleDeleteSession,
\* handleResetChat and sendMessage.
MutatingKinds == {"create", "delete", "reset", "chat"}

\* In this step one copy of request r left the bag.
Settled(r) == CopiesIn(r, inflight') = CopiesIn(r, inflight) - 1

\* The last step was the continuation op with outcome out.
Happened(op, out) == event = Event(op, out)

\* This step is the continuation (or refusal) op with outcome out.
Happens(op, out) == event' = Event(op, out)

\* The directory that is persisted under 'chat_history_list'.
StoredList == JSONparse(ls_history)

----------------------------------------------------------------------------
\* C1.  At most one request started by createSession, handleDeleteSession,
\* handleResetChat or sendMessage is outstanding in every reachable state.
\* The code has no such guard: only sendMessage looks at isLoading.
C1_OneMutatingRequest == Outstanding(MutatingKinds) <= 1

\* C2.  A sendMessage invoked while a sendMessage request is outstanding is
\* ignored: it starts no request (exactly one POST /chat stays outstanding)
\* and appends nothing to the transcript.
C2_SecondSendIgnored ==
    [][(/\ Outstanding({"chat"}) >= 1
        /\ (Happens("sendMessage", "refused")
               \/ Outstanding({"chat"})' > Outstanding({"chat"})))
        => /\ Outstanding({"chat"}) = 1
           /\ inflight' = inflight
           /\ messages' = messages]_vars

\* C2 witness: a sendMessage with text to send was refused while the first
\* request was outstanding.
C2_Witness ==
    /\ Happened("sendMessage", "refused")
    /\ Outstanding({"chat"}) = 1
    /\ jsTrim(input) # ""

\* C3.  Whenever a sendMessage, createSession or fetchHistory request is
\* outstanding, pending (isLoading) is true.  The code sets isLoading in
\* sendMessage only.
C3_PendingWhileOutstanding ==
    Outstanding({"chat", "create", "history"}) > 0 => isLoading

\* C4.  In every state with no operation outstanding, the active session is
\* none or an entry of the directory.
C4_ActiveInDirectory ==
    (mounted /\ inflight = EmptyBag)
        => (sessionId = Null \/ sessionId \in IdsOf(historyList))

\* C5 as claimed.  After initialization, the directory has at least one entry
\* after every createSession and deleteSession, whatever the backend answered.
C5_NeverEmptyAfterOperation ==
    (mounted /\ event.op \in {"createSession", "handleDeleteSession"})
        => Len(historyList) >= 1

\* C5 as amended.  Once a createSession has succeeded (a session id is
\* persisted) the directory has at least one entry in every state of the
\* mounted component; it is empty only while no createSession has succeeded.
C5_NonEmptyOnceCreated ==
    mounted => IF ls_session # Null
               THEN Len(historyList) >= 1 /\ Len(StoredList) >= 1
               ELSE historyList = <<>>

\* C5 witness: a deleteSession completed and left the last entry.
C5_Witness ==
    /\ Happened("handleDeleteSession", "resolved")
    /\ Len(historyList) = 1
    /\ ls_session # Null

\* C6.  handleDeleteSession on a directory of at most one entry is refused:
\* no request is started, and the directory (in memory and persisted), the
\* active session (in memory and persisted) and the transcript are unchanged.
C6_LastSessionKept ==
    [][(Len(historyList) <= 1
            /\ \E id \in Ids, confirmed \in BOOLEAN : handleDeleteSession(id, confirmed))
        => /\ Happens("handleDeleteSession", "refused")
           /\ UNCHANGED <<inflight, historyList, ls_history, sessionId,
                          ls_session, messages>>]_vars

\* C6 witness: the deletion of the only entry was refused.
C6_Witness ==
    /\ Happened("handleDeleteSession", "refused")
    /\ Len(historyList) = 1
    /\ inflight = EmptyBag

\* C7.  When the request of an accepted sendMessage settles, the transcript
\* is the transcript at the invocation, then the user message, then one
\* assistant message (length n + 2).
C7_AppendOnly ==
    [][\A r \in BagToSet(inflight) :
          (r.kind = "chat" /\ Settled(r) /\ event'.op = "sendMessage")
              => /\ Len(messages') = Len(r.pre) + 2
                 /\ SubSeq(messages', 1, Len(r.pre)) = r.pre
                 /\ messages'[Len(r.pre) + 1] = UserMessage(r.msg)
                 /\ messages'[Len(r.pre) + 2].role = "assistant"]_vars

\* C8.  When POST /chat rejects, nothing is removed from the transcript and
\* the apology, which has no sources, is appended at its end; if the
\* transcript still ended with the user message of this send, it now ends
\* with that message followed by the apology.  isLoading is cleared and the
\* component stays mounted.
C8_ApologyAfterUser ==
    [][\A r \in BagToSet(inflight) :
          (r.kind = "chat" /\ Settled(r) /\ Happens("sendMessage", "rejected"))
              => /\ messages' = Append(messages, ApologyMessage)
                 /\ "sources" \notin DOMAIN messages'[Len(messages')]
                 /\ (messages = Append(r.pre, UserMessage(r.msg))
                        => messages' = r.pre \o <<UserMessage(r.msg), ApologyMessage>>)
                 /\ ~isLoading'
                 /\ mounted']_vars

\* C8 witness: a send failed and the transcript ends with the user message
\* and the apology.
C8_Witness ==
    /\ Happened("sendMessage", "rejected")
    /\ Len(messages) >= 2
    /\ messages[Len(messages) - 1] = UserMessage(" hi")
    /\ messages[Len(messages)] = ApologyMessage
    /\ ~isLoading

\* C9.  isLoading is true only while a POST /chat is outstanding, and the
\* step in which that request settles (resolved or rejected) clears it; a
\* sendMessage with text is then not refused.
C9_PendingReleased ==
    /\ [](isLoading => Outstanding({"chat"}) = 1)
    /\ [][Outstanding({"chat"})' < Outstanding({"chat"})
            => ~isLoading' /\ (jsTrim(input') # "" => ~sendRefused(input', isLoading'))]_vars

\* C9 witness: after a failed send (the apology is in the transcript) a later
\* sendMessage was accepted.
C9_Witness ==
    /\ isLoading
    /\ \E i \in 1..(Len(messages) - 1) :
          messages[i] = ApologyMessage /\ messages[i + 1].role = "user"

C12_NoSendWithoutSession ==
    [][(sessionId = Null /\ sendMessage) => UNCHANGED <<messages, inflight>>]_vars

\* The last step was a fetchHistory that the backend answered.
HistoryArrived == event.op = "fetchHistory" /\ event.out = "resolved"

\* C13.  After a fetchHistory that the backend answered, the transcript is
\* the returned history verbatim when that is non-empty and the one-element
\* sequence of the greeting when it is empty; it is never empty.
C13_HistoryOrGreeting ==
    HistoryArrived
        => /\ (event.history # <<>> => messages = event.history)
           /\ (event.history = <<>> => messages = <<GreetingMessage>>)
           /\ messages # <<>>

\* C13 witness: the backend returned an empty history and the transcript is
\* the greeting.
C13_Witness ==
    /\ HistoryArrived
    /\ event.history = <<>>
    /\ messages = <<GreetingMessage>>

\* A step that starts GET /history/{id}: handleLoadSession went past line 84
\* (or the mount effect loads the persisted session).
StartsFetch(id) ==
    CopiesIn(fetchHistoryCall(id), inflight') > CopiesIn(fetchHistoryCall(id), inflight)

\* C14.  The step that starts the fetchHistory of a loadSession(id) makes id
\* the active session in memory and persisted and leaves the transcript; the
\* step in which a fetchHistory rejects changes neither the active session,
\* in memory and persisted, nor the transcript.
C14_SwitchKeptOnFailure ==
    [][/\ \A id \in Ids :
            StartsFetch(id)
                => sessionId' = id /\ ls_session' = id /\ messages' = messages
       /\ Happens("fetchHistory", "rejected")
            => UNCHANGED <<sessionId, ls_session, messages>>]_vars

\* C14 witness: the user switched to another session of the directory, the
\* fetch failed, the session stays switched and the transcript is the one
\* rendered before.
C14_Witness ==
    /\ Happened("fetchHistory", "rejected")
    /\ Len(historyList) >= 2
    /\ sessionId = historyList[2].id
    /\ ls_session = sessionId
    /\ messages = <<GreetingMessage>>
    /\ inflight = EmptyBag

\* C15.  When createSession succeeds with the fresh id s, s is the active
\* session in memory and persisted, the transcript is the greeting, and the
\* directory is the entry of s followed by the directory as it was just
\* before this update, nothing dropped.
C15_PrependKeepsEntries ==
    [][Happens("createSession", "resolved")
        => /\ sessionId' = nextId
           /\ ls_session' = nextId
           /\ messages' = <<GreetingMessage>>
           /\ Len(historyList') = Len(historyList) + 1
           /\ historyList'[1].id = nextId
           /\ Tail(historyList') = historyList
           /\ JSONparse(ls_history') = historyList']_vars

\* C16.  When the DELETE of deleteSession(id) resolves and id is the active
\* session, the first entry of the updated directory becomes active and its
\* history is fetched; when id is not the active session, the active session
\* is unchanged.
C16_DeleteActiveSwitches ==
    [][\A r \in BagToSet(inflight) :
          (r.kind = "delete" /\ Settled(r) /\ Happens("handleDeleteSession", "resolved"))
              => IF r.id = sessionId
                 THEN /\ historyList' # <<>>
                      /\ sessionId' = historyList'[1].id
                      /\ StartsFetch(sessionId')
                 ELSE sessionId' = sessionId]_vars

\* C17.  The assistant or apology message of a sendMessage issued for session
\* s is appended only while s is the active session.
C17_ReplyOnlyToItsSession ==
    [][\A r \in BagToSet(inflight) :
          (r.kind = "chat" /\ Settled(r) /\ event'.op = "sendMessage"
                /\ r.sid # sessionId)
              => messages' = messages]_vars

\* C18.  A fetchHistory response for session s replaces the transcript only
\* if s is the active session when it arrives.
C18_StaleHistoryDropped ==
    [][\A r \in BagToSet(inflight) :
          (r.kind = "history" /\ Settled(r) /\ event'.op = "fetchHistory"
                /\ r.id # sessionId)
              => messages' = messages]_vars

\* C19.  An entry leaves the persisted directory only in the step in which
\* the DELETE of its own id resolves, and an entry that enters it is the
\* session the backend has just created: none is lost and none comes back.
C19_NoLostUpdate ==
    [][\A id \in Ids :
          /\ (id \in IdsOf(StoredList) /\ id \notin IdsOf(JSONparse(ls_history')))
                => /\ Happens("handleDeleteSession", "resolved")
                   /\ \E r \in BagToSet(inflight) :
                         r.kind = "delete" /\ r.id = id /\ Settled(r)
          /\ (id \notin IdsOf(StoredList) /\ id \in IdsOf(JSONparse(ls_history')))
                => Happens("createSession", "resolved") /\ id = nextId]_vars

\* C20.  Once the mount effect has read local storage, the id stored under
\* chat_session_id is the active session whenever there is one, and the list
\* stored under chat_history_list is the in-memory directory.
C20_StorageMirrorsState ==
    mounted => /\ (sessionId # Null => ls_session = sessionId)
               /\ StoredList = historyList

\* A session selected in the sidebar, other than the newest, is the active
\* and the stored one, with a directory of two entries stored as well.
C20_Witness ==
    /\ mounted
    /\ Len(historyList) >= 2
    /\ sessionId = historyList[2].id
    /\ ls_session = sessionId
    /\ StoredList = historyList
    /\ event = NoEvent

====
